---- MODULE Spec2Model ----
(***************************************************************************)
(* A model of wiggle's guest-memory access layer: the region ledger        *)
(* (GuestBorrows), Region::overlaps, the memory provider's                 *)
(* validate_size_align, typed guest pointers, and the GuestType            *)
(* implementations emitted for flag sets, tagged ints and handles.         *)
(*                                                                         *)
(* u32 is modelled as a Width-bit unsigned integer (TLC's integers are     *)
(* 32-bit signed, so the real width cannot be enumerated); every           *)
(* operation keeps the checked / wrapping behaviour of the source at       *)
(* that width.                                                             *)
(***************************************************************************)
EXTENDS Integers, Sequences, FiniteSets, TLC

VARIABLES
    overflow_checks, \* build profile: TRUE = arithmetic overflow panics (debug)
    host,            \* the memory provider: [usize_max, base, base_len]
    mem,             \* guest memory contents: byte offset -> byte
    borrows,         \* GuestBorrows.borrows: the ledger
    halted,          \* a panic has unwound the host operation
    ptr,             \* a GuestPtr<T>: [pointer, ty]
    slice,           \* a GuestPtr<[T]>: [base, len, ty]
    flagval,         \* a flag-set value held by the host
    last             \* the last operation, its arguments and its result

vars == <<overflow_checks, host, mem, borrows, halted, ptr, slice, flagval, last>>

(***************************************************************************)
(* Bounds of the model.                                                    *)
(***************************************************************************)
Width == 4        \* bits of the modelled u32
MaxStart == 2     \* region starts / offsets drawn from 0..MaxStart (and the top of u32)
MaxLen == 2       \* region lengths / element counts drawn from 0..MaxLen
MaxBorrows == 3   \* ledger entries explored
MemLen == 4       \* bytes of guest memory (base_len)
NFlags == 2       \* flags declared by the flag set explored

Pow2(n) == 2 ^ n
U32Max == Pow2(Width) - 1
U32 == 0 .. U32Max

Min(a, b) == IF a < b THEN a ELSE b

(***************************************************************************)
(* Results: Ok(v) or one GuestError, or a panic of the host thread.        *)
(***************************************************************************)
Ok(v) == [kind |-> "Ok", val |-> v]
PtrOverflow == [kind |-> "PtrOverflow"]
PtrOutOfBounds(region) == [kind |-> "PtrOutOfBounds", region |-> region]
PtrNotAligned(region, align) == [kind |-> "PtrNotAligned", region |-> region, align |-> align]
PtrBorrowed(region) == [kind |-> "PtrBorrowed", region |-> region]
InvalidFlagValue(name) == [kind |-> "InvalidFlagValue", name |-> name]
InvalidUtf8 == [kind |-> "InvalidUtf8"]
Panic(msg) == [kind |-> "panic", msg |-> msg]

IsErr(res) == res.kind \notin {"Ok", "panic"}

(***************************************************************************)
(* Region and Region::overlaps.                                            *)
(***************************************************************************)
Region(start, len) == [start |-> start, len |-> len]

\* `len - 1` on a u32: wraps where overflow checks are off.
wrapping_sub1(len) == (len - 1) % (U32Max + 1)

\* `self.len - 1` / `rhs.len - 1` underflow: a panic where overflow checks are on.
overlaps_panics(self, rhs) == overflow_checks /\ (self.len = 0 \/ rhs.len = 0)

\* A test that only looks for the start or the end of rhs inside self.
overlaps_one_sided(self, rhs) ==
    LET self_start == self.start
        self_end == self_start + wrapping_sub1(self.len)
        rhs_start == rhs.start
        rhs_end == rhs_start + wrapping_sub1(rhs.len)
    IN  \/ (rhs_start >= self_start /\ rhs_start < self_end)
        \/ (rhs_end >= self_start /\ rhs_end < self_end)

overlaps(self, rhs) ==
    LET self_start == self.start
        self_end == self_start + wrapping_sub1(self.len)
        rhs_start == rhs.start
        rhs_end == rhs_start + wrapping_sub1(rhs.len)
    IN  \/ (rhs_start >= self_start /\ rhs_start < self_end)
        \/ (rhs_end >= self_start /\ rhs_end < self_end)
        \/ (self_start >= rhs_start /\ self_start < rhs_end)
        \/ (self_end >= rhs_start /\ self_end < rhs_end)

\* The half-open byte ranges [start, start+len) share a byte.
Intersect(a, b) == a.start < b.start + b.len /\ b.start < a.start + a.len

(***************************************************************************)
(* GuestBorrows.                                                           *)
(***************************************************************************)
\* `borrows.iter().all(|b| !b.overlaps(r))` stops at the first entry that overlaps
\* r; an entry whose overlaps call panics before that unwinds the call.
FirstStop(bs, r) ==
    LET stops == {i \in 1 .. Len(bs) : overlaps_panics(bs[i], r) \/ overlaps(bs[i], r)}
    IN  IF stops = {} THEN 0 ELSE CHOOSE i \in stops : \A j \in stops : i <= j

is_borrowed(bs, r) ==
    LET i == FirstStop(bs, r)
    IN  IF i = 0 THEN "false"
        ELSE IF overlaps_panics(bs[i], r) THEN "panic"
        ELSE "true"

\* The result and the ledger after `bs.borrow(r)`.
borrow(bs, r) ==
    LET b == is_borrowed(bs, r)
    IN  IF b = "panic" THEN [res |-> Panic("attempt to subtract with overflow"), borrows |-> bs]
        ELSE IF b = "true" THEN [res |-> PtrBorrowed(r), borrows |-> bs]
        ELSE [res |-> Ok(0), borrows |-> Append(bs, r)]

(***************************************************************************)
(* The memory provider (GuestMemory).                                      *)
(***************************************************************************)
\* Hosts explored: usize as wide as u32 (a 32-bit host) and twice as wide (a
\* 64-bit host); base() is a valid allocation of base_len bytes, so base + base_len
\* fits a usize.
UsizeMaxes == {U32Max, Pow2(2 * Width) - 1}
Hosts ==
    {h \in [usize_max : UsizeMaxes, base : {6, 8, U32Max - MemLen, Pow2(2 * Width) - 1 - MemLen},
            base_len : {MemLen}] :
        h.base + h.base_len <= h.usize_max}

\* A bounds test that is off by one: an access ending exactly at the end of memory
\* is rejected.
validate_size_align_ge(offset, align, len) ==
    LET region == [start |-> offset, len |-> len]
        start == host.base + offset
        end == start + len
    IN  IF start > host.usize_max \/ end > host.usize_max THEN [kind |-> "PtrOverflow"]
        ELSE IF end >= host.base + host.base_len
            THEN [kind |-> "PtrOutOfBounds", region |-> region]
        ELSE IF align = 0
            THEN [kind |-> "panic",
                  msg |-> "attempt to calculate the remainder with a divisor of zero"]
        ELSE IF start % align # 0
            THEN [kind |-> "PtrNotAligned", region |-> region, align |-> align]
        ELSE [kind |-> "Ok", val |-> start]

\* Address arithmetic that wraps around the host's usize instead of being checked.
validate_size_align_wrapping(offset, align, len) ==
    LET region == [start |-> offset, len |-> len]
        start == (host.base + offset) % (host.usize_max + 1)
        end == (start + len) % (host.usize_max + 1)
    IN  IF end > host.base + host.base_len
            THEN [kind |-> "PtrOutOfBounds", region |-> region]
        ELSE IF align = 0
            THEN [kind |-> "panic",
                  msg |-> "attempt to calculate the remainder with a divisor of zero"]
        ELSE IF start % align # 0
            THEN [kind |-> "PtrNotAligned", region |-> region, align |-> align]
        ELSE [kind |-> "Ok", val |-> start]

\* The alignment test made before the bounds test.
validate_size_align_align_first(offset, align, len) ==
    LET base_ptr == host.base
        base_len == host.base_len
        region == Region(offset, len)
        start == base_ptr + offset
        end == start + len
    IN  IF start > host.usize_max THEN PtrOverflow
        ELSE IF end > host.usize_max THEN PtrOverflow
        ELSE IF align = 0
            THEN Panic("attempt to calculate the remainder with a divisor of zero")
        ELSE IF start % align # 0 THEN PtrNotAligned(region, align % (U32Max + 1))
        ELSE IF end > base_ptr + base_len THEN PtrOutOfBounds(region)
        ELSE Ok(start)

\* `align as u32` keeps the low 32 bits of the usize alignment.
validate_size_align(offset, align, len) ==
    LET base_ptr == host.base
        base_len == host.base_len
        region == Region(offset, len)
        start == base_ptr + offset
        end == start + len
    IN  IF start > host.usize_max THEN PtrOverflow
        ELSE IF end > host.usize_max THEN PtrOverflow
        ELSE IF end > base_ptr + base_len THEN PtrOutOfBounds(region)
        ELSE IF align = 0
            THEN Panic("attempt to calculate the remainder with a divisor of zero")
        ELSE IF start % align # 0 THEN PtrNotAligned(region, align % (U32Max + 1))
        ELSE Ok(start)

(***************************************************************************)
(* Guest types: the integer reprs, and the emitted flag sets, tagged ints  *)
(* and handles.                                                            *)
(***************************************************************************)
Reprs == {"u8", "u16", "u32"}

\* Bytes of a repr in guest memory (its natural width).
repr_size(repr) == CASE repr = "u8" -> 1 [] repr = "u16" -> 2 [] repr = "u32" -> 4

\* Bits of a repr's values.
repr_bits(repr) == 8 * repr_size(repr)

PrimTy(repr) == [kind |-> "prim", repr |-> repr, nflags |-> 0]
FlagsTy(repr, n) == [kind |-> "flags", repr |-> repr, nflags |-> n]
IntTy(repr) == [kind |-> "int", repr |-> repr, nflags |-> 0]
HandleTy == [kind |-> "handle", repr |-> "u32", nflags |-> 0]

guest_size(ty) == repr_size(ty.repr)
guest_align(ty) == repr_size(ty.repr)

(***************************************************************************)
(* Bitwise operators on naturals.                                          *)
(***************************************************************************)
RECURSIVE BitAnd(_, _)
BitAnd(a, b) ==
    IF a = 0 \/ b = 0 THEN 0
    ELSE (a % 2) * (b % 2) + 2 * BitAnd(a \div 2, b \div 2)

RECURSIVE BitOr(_, _)
BitOr(a, b) ==
    IF a = 0 THEN b
    ELSE IF b = 0 THEN a
    ELSE (IF a % 2 = 1 \/ b % 2 = 1 THEN 1 ELSE 0) + 2 * BitOr(a \div 2, b \div 2)

RECURSIVE BitXor(_, _)
BitXor(a, b) ==
    IF a = 0 THEN b
    ELSE IF b = 0 THEN a
    ELSE ((a + b) % 2) + 2 * BitXor(a \div 2, b \div 2)

BitNot(a, bits) == (Pow2(bits) - 1) - a

(***************************************************************************)
(* Guest memory contents and the primitive integers' read and write.       *)
(***************************************************************************)
\* A host integer of one or two bytes is a number; a four-byte integer (too wide
\* for TLC's integers) is the pair <<low half, high half>> of 16-bit numbers.
Word(lo, hi) == <<lo, hi>>

le_bytes2(v, size) == [i \in 0 .. size - 1 |-> (v \div Pow2(8 * i)) % 256]

\* The little-endian bytes of v, least significant first.
le_bytes(v, size) ==
    IF size <= 2 THEN le_bytes2(v, size)
    ELSE [i \in 0 .. size - 1 |-> le_bytes2(v[1 + (i \div 2)], 2)[i % 2]]

RECURSIVE le_value2(_, _, _)
le_value2(m, offset, size) ==
    IF size = 0 THEN 0
    ELSE m[offset] + 256 * le_value2(m, offset + 1, size - 1)

\* The integer whose little-endian bytes are m[offset .. offset+size).
le_value(m, offset, size) ==
    IF size <= 2 THEN le_value2(m, offset, size)
    ELSE Word(le_value2(m, offset, 2), le_value2(m, offset + 2, 2))

store(m, offset, v, size) ==
    [a \in DOMAIN m |->
        IF a >= offset /\ a < offset + size THEN le_bytes(v, size)[a - offset] ELSE m[a]]

\* <repr as GuestType>::read: bounds and alignment check, then the bytes.
prim_read(m, offset, repr) ==
    LET v == validate_size_align(offset, repr_size(repr), repr_size(repr))
    IN  IF v.kind # "Ok" THEN v ELSE Ok(le_value(m, offset, repr_size(repr)))

\* <repr as GuestType>::write: the result and the memory after it.
prim_write(m, offset, repr, val) ==
    LET v == validate_size_align(offset, repr_size(repr), repr_size(repr))
    IN  IF v.kind # "Ok" THEN [res |-> v, mem |-> m]
        ELSE [res |-> Ok(0), mem |-> store(m, offset, val, repr_size(repr))]

(***************************************************************************)
(* The emitted flag set (define_flags).                                    *)
(***************************************************************************)
\* ALL_FLAGS: the sum of 1 << i over the declared flags.
RECURSIVE all_values(_)
all_values(n) == IF n = 0 THEN 0 ELSE Pow2(n - 1) + all_values(n - 1)

EMPTY_FLAGS == 0
ALL_FLAGS(ty) == all_values(ty.nflags)

bitand(ty, a, b) == BitAnd(a, b)
bitor(ty, a, b) == BitOr(a, b)
bitxor(ty, a, b) == BitXor(a, b)
not(ty, a) == BitNot(a, repr_bits(ty.repr))

\* contains: `!*self & *other == Self::EMPTY_FLAGS`, with the operands swapped.
contains_swapped(ty, self, other) == bitand(ty, not(ty, other), self) = EMPTY_FLAGS

contains(ty, self, other) == bitand(ty, not(ty, self), other) = EMPTY_FLAGS

\* TryFrom<repr> testing the mask itself instead of its complement.
flags_try_from_unnegated(ty, value) ==
    IF BitAnd(ALL_FLAGS(ty), value) # 0
    THEN InvalidFlagValue("flags")
    ELSE Ok(value)

\* TryFrom<repr>
flags_try_from(ty, value) ==
    IF BitAnd(not(ty, ALL_FLAGS(ty)), value) # 0
    THEN InvalidFlagValue("flags")
    ELSE Ok(value)

\* `value as #repr` on the ABI integer (an i32 here): the low bits of the repr's
\* width, for a negative value too.
as_repr(value, repr) == value % Pow2(repr_bits(repr))

\* TryFrom<#abi_repr>::try_from.
flags_try_from_abi(ty, value) == flags_try_from(ty, as_repr(value, ty.repr))

flags_validate_read(m, offset, ty) ==
    LET host_ptr == validate_size_align(offset, guest_align(ty), guest_size(ty))
    IN  IF host_ptr.kind # "Ok" THEN host_ptr
        ELSE LET reprval == prim_read(m, offset, ty.repr)
             IN  IF reprval.kind # "Ok" THEN reprval
                 ELSE flags_try_from(ty, reprval.val)

flags_read(m, offset, ty) == flags_validate_read(m, offset, ty)
flags_write(m, offset, ty, val) == prim_write(m, offset, ty.repr, val)

(***************************************************************************)
(* The emitted tagged int (define_int) and handle (define_handle).         *)
(***************************************************************************)
\* TryFrom<repr> that treats the tagged int as a flag set without flags.
int_try_from_masked(ty, value) ==
    IF value # 0 THEN InvalidFlagValue("int") ELSE Ok(value)

int_try_from(ty, value) == Ok(value)
int_read(m, offset, ty) ==
    LET r == prim_read(m, offset, ty.repr)
    IN  IF r.kind # "Ok" THEN r ELSE Ok(r.val)
int_write(m, offset, ty, val) == prim_write(m, offset, ty.repr, val)

\* The host reads the validated bytes as a u32 (a little-endian host).
handle_read(m, offset, ty) ==
    LET host_ptr == validate_size_align(offset, guest_align(ty), guest_size(ty))
    IN  IF host_ptr.kind # "Ok" THEN host_ptr
        ELSE Ok(le_value(m, offset, guest_size(ty)))
handle_write(m, offset, ty, val) == prim_write(m, offset, "u32", val)

\* GuestPtr::read / GuestPtr::write: delegate to T's GuestType implementation.
read(m, offset, ty) ==
    CASE ty.kind = "flags" -> flags_read(m, offset, ty)
      [] ty.kind = "int" -> int_read(m, offset, ty)
      [] ty.kind = "handle" -> handle_read(m, offset, ty)
      [] ty.kind = "prim" -> prim_read(m, offset, ty.repr)

write(m, offset, ty, val) ==
    CASE ty.kind = "flags" -> flags_write(m, offset, ty, val)
      [] ty.kind = "int" -> int_write(m, offset, ty, val)
      [] ty.kind = "handle" -> handle_write(m, offset, ty, val)
      [] ty.kind = "prim" -> prim_write(m, offset, ty.repr, val)

\* GuestTypeTransparent::validate of one element: all bit patterns accepted.
validate_transparent(ty) == Ok(0)

(***************************************************************************)
(* Typed guest pointers (GuestPtr).                                        *)
(***************************************************************************)
new(pointer, ty) == [pointer |-> pointer, ty |-> ty]

cast(p, ty) == new(p.pointer, ty)

\* A pointer advance whose multiplication wraps instead of being checked.
add_wrapping_mul(p, amt) ==
    LET o == (amt * guest_size(p.ty)) % (U32Max + 1)
    IN  IF p.pointer + o > U32Max THEN [kind |-> "PtrOverflow"]
        ELSE [kind |-> "Ok", val |-> [pointer |-> p.pointer + o, ty |-> p.ty]]

\* amt.checked_mul(T::guest_size()).and_then(|o| self.pointer.checked_add(o))
add(p, amt) ==
    LET o == amt * guest_size(p.ty)
    IN  IF o > U32Max THEN PtrOverflow
        ELSE IF p.pointer + o > U32Max THEN PtrOverflow
        ELSE Ok(new(p.pointer + o, p.ty))

\* A slice constructor that clamps the element count to what fits below u32::MAX.
as_array_clamped(p, elems) ==
    [base |-> p.pointer,
     len |-> Min(elems, (U32Max - p.pointer) \div guest_size(p.ty)),
     ty |-> p.ty]

as_array(p, elems) == [base |-> p.pointer, len |-> elems, ty |-> p.ty]

offset_base(s) == s.base

as_ptr(s) == new(offset_base(s), s.ty)

\* str::from_utf8 on the bytes m[offset .. offset+len).
Cont(b) == b >= 128 /\ b <= 191

RECURSIVE from_utf8(_, _, _)
from_utf8(m, offset, len) ==
    IF len = 0 THEN TRUE
    ELSE LET b0 == m[offset]
             b1 == m[offset + 1]
             b2 == m[offset + 2]
             b3 == m[offset + 3]
         IN  IF b0 < 128 THEN from_utf8(m, offset + 1, len - 1)
             ELSE IF b0 >= 194 /\ b0 <= 223
                 THEN len >= 2 /\ Cont(b1) /\ from_utf8(m, offset + 2, len - 2)
             ELSE IF b0 >= 224 /\ b0 <= 239
                 THEN /\ len >= 3
                      /\ Cont(b1)
                      /\ (b0 = 224 => b1 >= 160)
                      /\ (b0 = 237 => b1 <= 159)
                      /\ Cont(b2)
                      /\ from_utf8(m, offset + 3, len - 3)
             ELSE IF b0 >= 240 /\ b0 <= 244
                 THEN /\ len >= 4
                      /\ Cont(b1)
                      /\ (b0 = 240 => b1 >= 144)
                      /\ (b0 = 244 => b1 <= 143)
                      /\ Cont(b2)
                      /\ Cont(b3)
                      /\ from_utf8(m, offset + 4, len - 4)
             ELSE FALSE

\* as_raw that records the region before it validates size and alignment.
slice_as_raw_borrow_first(s, bs) ==
    LET len == s.len * guest_size(s.ty)
    IN  IF len > U32Max THEN [res |-> PtrOverflow, borrows |-> bs]
        ELSE LET b == borrow(bs, Region(s.base, len))
             IN  IF b.res.kind # "Ok" THEN b
                 ELSE LET v == validate_size_align(s.base, guest_align(s.ty), len)
                      IN  IF v.kind # "Ok" THEN [res |-> v, borrows |-> b.borrows]
                          ELSE [res |-> Ok([data |-> v.val, len |-> s.len]),
                                borrows |-> b.borrows]

\* GuestPtr<[T]>::as_raw: the result and the ledger after it.
slice_as_raw(s, bs) ==
    LET len == s.len * guest_size(s.ty)
    IN  IF len > U32Max THEN [res |-> PtrOverflow, borrows |-> bs]
        ELSE LET v == validate_size_align(s.base, guest_align(s.ty), len)
             IN  IF v.kind # "Ok" THEN [res |-> v, borrows |-> bs]
                 ELSE LET b == borrow(bs, Region(s.base, len))
                      IN  IF b.res.kind # "Ok" THEN b
                          ELSE IF s.len > 0 /\ validate_transparent(s.ty).kind # "Ok"
                              THEN [res |-> validate_transparent(s.ty), borrows |-> b.borrows]
                          ELSE [res |-> Ok([data |-> v.val, len |-> s.len]),
                                borrows |-> b.borrows]

\* as_raw that records the borrow and skips the UTF-8 verification.
str_as_raw_unverified(s, bs, m) ==
    LET v == validate_size_align(s.base, 1, s.len)
    IN  IF v.kind # "Ok" THEN [res |-> v, borrows |-> bs]
        ELSE LET b == borrow(bs, Region(s.base, s.len))
             IN  IF b.res.kind # "Ok" THEN b
                 ELSE [res |-> Ok([data |-> v.val, len |-> s.len]), borrows |-> b.borrows]

\* GuestPtr<str>::as_raw: the result and the ledger after it.
str_as_raw(s, bs, m) ==
    LET v == validate_size_align(s.base, 1, s.len)
    IN  IF v.kind # "Ok" THEN [res |-> v, borrows |-> bs]
        ELSE LET b == borrow(bs, Region(s.base, s.len))
             IN  IF b.res.kind # "Ok" THEN b
                 ELSE IF from_utf8(m, s.base, s.len)
                     THEN [res |-> Ok([data |-> v.val, len |-> s.len]), borrows |-> b.borrows]
                 ELSE [res |-> InvalidUtf8, borrows |-> b.borrows]

(***************************************************************************)
(* Inputs.                                                                 *)
(***************************************************************************)
Offsets == (0 .. MaxStart) \cup {U32Max}
Lens == 0 .. MaxLen
RegionInputs == {Region(st, ln) : st \in Offsets, ln \in Lens}
ElemTypes == {IntTy("u16"), HandleTy}

\* HostMemory::new zeroes the buffer; the guest then fills it.
ZeroMem == [a \in 0 .. MemLen - 1 |-> 0]
\* "A", then the two bytes of a Greek alpha, then stray continuation bytes.
TextMem ==
    [a \in 0 .. MemLen - 1 |->
        IF a = 0 THEN 65 ELSE IF a = 1 THEN 206 ELSE IF a = 2 THEN 177 ELSE 128]
GuestMems == {ZeroMem, TextMem}

NoPtr == new(0, PrimTy("u8"))
NoSlice == as_array(NoPtr, 0)
NoOp == [op |-> "none"]

(***************************************************************************)
(* Spec: one host operation sequence sharing one ledger.                   *)
(***************************************************************************)
Init ==
    /\ overflow_checks \in BOOLEAN
    /\ host \in {h \in Hosts : h.base = 8 /\ h.usize_max > U32Max}
    /\ mem \in GuestMems
    /\ borrows = <<>>
    /\ halted = FALSE
    /\ ptr = NoPtr
    /\ slice = NoSlice
    /\ flagval = EMPTY_FLAGS
    /\ last = NoOp

CanCall == ~halted /\ Len(borrows) < MaxBorrows

Borrow(r) ==
    /\ CanCall
    /\ LET b == borrow(borrows, r)
       IN  /\ borrows' = b.borrows
           /\ halted' = (b.res.kind = "panic")
           /\ last' = [op |-> "borrow", r |-> r, res |-> b.res, pre |-> borrows]
    /\ UNCHANGED <<overflow_checks, host, mem, ptr, slice, flagval>>

BorrowPointee(offset, ty) ==
    /\ CanCall
    /\ LET r == Region(new(offset, ty).pointer, guest_size(ty))
           b == borrow(borrows, r)
       IN  /\ borrows' = b.borrows
           /\ halted' = (b.res.kind = "panic")
           /\ last' = [op |-> "borrow_pointee", r |-> r, res |-> b.res, pre |-> borrows]
    /\ UNCHANGED <<overflow_checks, host, mem, ptr, slice, flagval>>

SliceAsRaw(base, n, ty) ==
    /\ CanCall
    /\ LET s == as_array(new(base, ty), n)
           b == slice_as_raw(s, borrows)
       IN  /\ borrows' = b.borrows
           /\ halted' = (b.res.kind = "panic")
           /\ last' = [op |-> "slice_as_raw", self |-> s, res |-> b.res, pre |-> borrows]
    /\ UNCHANGED <<overflow_checks, host, mem, ptr, slice, flagval>>

StrAsRaw(base, n) ==
    /\ CanCall
    /\ LET s == [base |-> base, len |-> n, ty |-> PrimTy("u8")]
           b == str_as_raw(s, borrows, mem)
       IN  /\ borrows' = b.borrows
           /\ halted' = (b.res.kind = "panic")
           /\ last' = [op |-> "str_as_raw", self |-> s, res |-> b.res, pre |-> borrows]
    /\ UNCHANGED <<overflow_checks, host, mem, ptr, slice, flagval>>

Next ==
    \/ \E r \in RegionInputs : Borrow(r)
    \/ \E offset \in Offsets, ty \in ElemTypes : BorrowPointee(offset, ty)
    \/ \E base \in Offsets, n \in Lens \cup {U32Max}, ty \in ElemTypes : SliceAsRaw(base, n, ty)
    \/ \E base \in Offsets, n \in Lens \cup {U32Max} : StrAsRaw(base, n)

Spec == Init /\ [][Next]_vars

(***************************************************************************)
(* SpecSlice: one slice as_raw call against a ledger that earlier borrows  *)
(* have filled.                                                            *)
(***************************************************************************)
\* Ledgers after at most two successful borrows on a new ledger.
HeldLedgers ==
    {<<>>} \cup {<<r>> : r \in RegionInputs}
        \cup UNION {{<<r1, r2>> : r2 \in {r \in RegionInputs :
                                                is_borrowed(<<r1>>, r) = "false"}} :
                     r1 \in RegionInputs}

InitSlice ==
    /\ overflow_checks \in BOOLEAN
    /\ host \in {h \in Hosts : h.base = 8 /\ h.usize_max > U32Max}
    /\ mem = ZeroMem
    /\ borrows \in HeldLedgers
    /\ halted = FALSE
    /\ ptr = NoPtr
    /\ slice = NoSlice
    /\ flagval = EMPTY_FLAGS
    /\ last = NoOp

NextSlice ==
    \E base \in Offsets, n \in Lens \cup {U32Max}, ty \in ElemTypes :
        last.op = "none" /\ SliceAsRaw(base, n, ty)

SpecSlice == InitSlice /\ [][NextSlice]_vars

(***************************************************************************)
(* SpecRegion: Region::overlaps applied to two regions.                    *)
(***************************************************************************)
InitRegion ==
    /\ overflow_checks \in BOOLEAN
    /\ host \in {h \in Hosts : h.base = 8 /\ h.usize_max > U32Max}
    /\ mem = ZeroMem
    /\ borrows = <<>>
    /\ halted = FALSE
    /\ ptr = NoPtr
    /\ slice = NoSlice
    /\ flagval = EMPTY_FLAGS
    /\ last = NoOp

Overlaps(self, rhs) ==
    /\ ~halted
    /\ last' = [op |-> "overlaps", self |-> self, rhs |-> rhs,
                res |-> IF overlaps_panics(self, rhs) THEN "panic"
                        ELSE IF overlaps(self, rhs) THEN "true" ELSE "false"]
    /\ halted' = overlaps_panics(self, rhs)
    /\ UNCHANGED <<overflow_checks, host, mem, borrows, ptr, slice, flagval>>

NextRegion == \E self \in RegionInputs, rhs \in RegionInputs : Overlaps(self, rhs)

SpecRegion == InitRegion /\ [][NextRegion]_vars

(***************************************************************************)
(* Claims about the region ledger.                                         *)
(***************************************************************************)
\* The half-open byte ranges of a and b have a byte in common.
SharesByte(a, b) ==
    \E x \in a.start .. (a.start + a.len - 1) : x >= b.start /\ x < b.start + b.len

Entries(bs) == {bs[i] : i \in 1 .. Len(bs)}

\* C1: after any sequence of borrow, borrow_pointee and as_raw calls on one ledger,
\* every two distinct entries of the ledger are disjoint as half-open byte ranges.
C1_EntriesDisjoint ==
    \A i, j \in 1 .. Len(borrows) : i # j => ~SharesByte(borrows[i], borrows[j])

\* C2: Region::overlaps(A, B) is true iff a0 < b0+lb and b0 < a0+la.
C2_OverlapsIffIntersect ==
    last.op = "overlaps" =>
        ((last.res = "true") <=> Intersect(last.self, last.rhs))

\* C3: once borrow(R1) has succeeded for a region of len >= 1, a second borrow(R1)
\* on the same ledger fails.
C3_SecondBorrowFails ==
    (last.op = "borrow" /\ last.r.len >= 1 /\ last.r \in Entries(last.pre))
        => last.res.kind = "PtrBorrowed"

\* C4: a zero-length region overlaps nothing, so borrow of a zero-length region
\* succeeds whatever the ledger holds.
C4_ZeroLenBorrowSucceeds ==
    (last.op = "borrow" /\ last.r.len = 0) => last.res.kind = "Ok"

\* C5: borrow(r) fails with PtrBorrowed(r) and leaves the ledger as it was whenever
\* r overlaps any tracked region; otherwise it returns Ok and r is recorded.
C5_BorrowFailsIffOverlap ==
    last.op = "borrow" =>
        IF \E b \in Entries(last.pre) : SharesByte(b, last.r)
        THEN last.res = PtrBorrowed(last.r) /\ borrows = last.pre
        ELSE last.res.kind = "Ok" /\ borrows = Append(last.pre, last.r)

(***************************************************************************)
(* SpecPtr: constructing and moving typed guest pointers.                  *)
(***************************************************************************)
PtrTypes == {PrimTy("u8"), IntTy("u16"), HandleTy}
PtrOffsets == Offsets \cup {MemLen, U32Max - 1}
Amounts == Lens \cup {U32Max \div 4, U32Max \div 2, U32Max}

InitPtr ==
    /\ overflow_checks \in BOOLEAN
    /\ host \in {h \in Hosts : h.base = 8 /\ h.usize_max > U32Max}
    /\ mem = ZeroMem
    /\ borrows = <<>>
    /\ halted = FALSE
    /\ ptr = NoPtr
    /\ slice = NoSlice
    /\ flagval = EMPTY_FLAGS
    /\ last = NoOp

\* GuestMemory::ptr / GuestPtr::new
PtrNew(offset, ty) ==
    /\ ptr' = new(offset, ty)
    /\ last' = [op |-> "new", offset |-> offset, ty |-> ty]
    /\ UNCHANGED <<overflow_checks, host, mem, borrows, halted, slice, flagval>>

PtrCast(ty) ==
    /\ ptr' = cast(ptr, ty)
    /\ last' = [op |-> "cast", self |-> ptr, ty |-> ty]
    /\ UNCHANGED <<overflow_checks, host, mem, borrows, halted, slice, flagval>>

\* `self.add(amt)`: the pointer itself is borrowed immutably.
PtrAdd(amt) ==
    /\ last' = [op |-> "add", self |-> ptr, amt |-> amt, res |-> add(ptr, amt)]
    /\ UNCHANGED <<overflow_checks, host, mem, borrows, halted, ptr, slice, flagval>>

\* `p = p.add(amt)?`
PtrRebind ==
    /\ last.op = "add"
    /\ last.res.kind = "Ok"
    /\ ptr' = last.res.val
    /\ last' = [op |-> "rebind"]
    /\ UNCHANGED <<overflow_checks, host, mem, borrows, halted, slice, flagval>>

PtrAsArray(elems) ==
    /\ slice' = as_array(ptr, elems)
    /\ last' = [op |-> "as_array", self |-> ptr, elems |-> elems]
    /\ UNCHANGED <<overflow_checks, host, mem, borrows, halted, ptr, flagval>>

\* `s.as_ptr()`; chained when s is the slice the previous as_array returned.
SliceAsPtr ==
    /\ ptr' = as_ptr(slice)
    /\ last' = [op |-> "as_ptr", self |-> slice,
                chained |-> (last.op = "as_array"),
                origin |-> IF last.op = "as_array" THEN last.self ELSE NoPtr]
    /\ UNCHANGED <<overflow_checks, host, mem, borrows, halted, slice, flagval>>

NextPtr ==
    \/ \E offset \in PtrOffsets, ty \in PtrTypes : PtrNew(offset, ty)
    \/ \E ty \in PtrTypes : PtrCast(ty)
    \/ \E amt \in Amounts : PtrAdd(amt)
    \/ PtrRebind
    \/ \E elems \in Lens \cup {U32Max} : PtrAsArray(elems)
    \/ SliceAsPtr

SpecPtr == InitPtr /\ [][NextPtr]_vars

(***************************************************************************)
(* Claims about typed guest pointers.                                      *)
(***************************************************************************)
\* C8: add(n) on a pointer at offset o to a type of guest size s returns PtrOverflow
\* exactly when n*s or o + n*s exceeds u32::MAX; otherwise it returns a pointer of
\* the same type at offset o + n*s; the original pointer is unchanged.
C8_AddOverflowExactly ==
    last.op = "add" =>
        LET o == last.self.pointer
            n == last.amt
            s == guest_size(last.self.ty)
        IN  /\ (last.res = PtrOverflow) <=> (n * s > U32Max \/ o + n * s > U32Max)
            /\ last.res # PtrOverflow => last.res = Ok(new(o + n * s, last.self.ty))
            /\ ptr = last.self

\* An add whose product fits u32 and whose sum does not.
C8_Witness ==
    /\ last.op = "add"
    /\ last.res = PtrOverflow
    /\ last.amt * guest_size(last.self.ty) <= U32Max
    /\ last.amt >= 1
    /\ ptr = last.self

\* C9: constructing a guest pointer never fails and never validates: new, cast,
\* as_array and as_ptr yield a pointer for every offset and length and preserve the
\* offset; p.as_array(n).as_ptr().offset() = p.offset() and p.as_array(n).len() = n.
C9_ConstructionPreservesOffset ==
    /\ DOMAIN ptr = {"pointer", "ty"}
    /\ DOMAIN slice = {"base", "len", "ty"}
    /\ last.op = "new" => ptr.pointer = last.offset /\ ptr.ty = last.ty
    /\ last.op = "cast" => ptr.pointer = last.self.pointer /\ ptr.ty = last.ty
    /\ last.op = "as_array" =>
        /\ slice.base = last.self.pointer
        /\ slice.len = last.elems
        /\ slice.ty = last.self.ty
        /\ ptr = last.self
    /\ last.op = "as_ptr" =>
        /\ ptr.pointer = last.self.base
        /\ ptr.ty = last.self.ty
        /\ last.chained => ptr.pointer = last.origin.pointer

\* A misaligned pointer at u32::MAX made into a slice of u32::MAX elements and back.
C9_Witness ==
    /\ last.op = "as_ptr"
    /\ last.chained
    /\ last.origin.pointer = U32Max
    /\ guest_align(last.origin.ty) > 1
    /\ slice.len = U32Max
    /\ ptr.pointer = U32Max

(***************************************************************************)
(* SpecProvider: the memory provider's validation, and the size-taking     *)
(* operations of pointers at the top of the guest address space.           *)
(***************************************************************************)
AccessTypes == {PrimTy("u8"), IntTy("u16"), HandleTy, FlagsTy("u8", 3)}
Transparent(ty) == ty.kind \in {"prim", "int", "handle"}
ProbeOffsets == (0 .. MemLen + 1) \cup {U32Max - 1, U32Max}
ProbeLens == (0 .. MemLen + 1) \cup {U32Max}
\* Alignments: the guest types' ones, zero, and one that needs more than 32 bits (a
\* usize only on the wide host).
Aligns == {0, 1, 2, 4, U32Max + 3}

InitProvider ==
    /\ overflow_checks \in BOOLEAN
    /\ host \in Hosts
    /\ mem = TextMem
    /\ borrows = <<>>
    /\ halted = FALSE
    /\ ptr \in {new(offset, ty) : offset \in {U32Max - 1, U32Max}, ty \in AccessTypes}
    /\ slice = NoSlice
    /\ flagval = EMPTY_FLAGS
    /\ last = NoOp

ValidateSizeAlign(offset, align, len) ==
    /\ ~halted
    /\ align <= host.usize_max
    /\ LET res == validate_size_align(offset, align, len)
       IN  /\ last' = [op |-> "validate_size_align", offset |-> offset, align |-> align,
                       len |-> len, res |-> res]
           /\ halted' = (res.kind = "panic")
    /\ UNCHANGED <<overflow_checks, host, mem, borrows, ptr, slice, flagval>>

TopCast(ty) ==
    /\ ~halted
    /\ ptr' = cast(ptr, ty)
    /\ last' = [op |-> "cast", offset |-> ptr.pointer]
    /\ UNCHANGED <<overflow_checks, host, mem, borrows, halted, slice, flagval>>

TopRead ==
    /\ ~halted
    /\ last' = [op |-> "read", offset |-> ptr.pointer, len |-> guest_size(ptr.ty),
                res |-> read(mem, ptr.pointer, ptr.ty)]
    /\ UNCHANGED <<overflow_checks, host, mem, borrows, halted, ptr, slice, flagval>>

TopWrite(val) ==
    /\ ~halted
    /\ LET w == write(mem, ptr.pointer, ptr.ty, val)
       IN  /\ mem' = w.mem
           /\ last' = [op |-> "write", offset |-> ptr.pointer, len |-> guest_size(ptr.ty),
                       res |-> w.res]
    /\ UNCHANGED <<overflow_checks, host, borrows, halted, ptr, slice, flagval>>

TopAdd(amt) ==
    /\ ~halted
    /\ last' = [op |-> "add", offset |-> ptr.pointer, len |-> amt, res |-> add(ptr, amt)]
    /\ UNCHANGED <<overflow_checks, host, mem, borrows, halted, ptr, slice, flagval>>

TopSliceAsRaw(elems) ==
    /\ ~halted
    /\ Transparent(ptr.ty)
    /\ LET b == slice_as_raw(as_array(ptr, elems), borrows)
       IN  /\ borrows' = b.borrows
           /\ halted' = (b.res.kind = "panic")
           /\ last' = [op |-> "slice_as_raw", offset |-> ptr.pointer, len |-> elems,
                       res |-> b.res]
    /\ UNCHANGED <<overflow_checks, host, mem, ptr, slice, flagval>>

TopStrAsRaw(len) ==
    /\ ~halted
    /\ LET b == str_as_raw([base |-> ptr.pointer, len |-> len, ty |-> PrimTy("u8")],
                           borrows, mem)
       IN  /\ borrows' = b.borrows
           /\ halted' = (b.res.kind = "panic")
           /\ last' = [op |-> "str_as_raw", offset |-> ptr.pointer, len |-> len,
                       res |-> b.res]
    /\ UNCHANGED <<overflow_checks, host, mem, ptr, slice, flagval>>

NextProvider ==
    \/ \E offset \in ProbeOffsets, align \in Aligns, len \in ProbeLens :
            ValidateSizeAlign(offset, align, len)
    \/ \E ty \in AccessTypes : TopCast(ty)
    \/ TopRead
    \/ \E val \in {0, 1} : TopWrite(IF guest_size(ptr.ty) > 2 THEN Word(val, 0) ELSE val)
    \/ \E amt \in Amounts : TopAdd(amt)
    \/ \E elems \in Lens \cup {U32Max} : TopSliceAsRaw(elems)
    \/ \E len \in Lens \cup {U32Max} : TopStrAsRaw(len)

SpecProvider == InitProvider /\ [][NextProvider]_vars

(***************************************************************************)
(* Claims about the memory provider.                                       *)
(***************************************************************************)
\* x is a multiple of d (for d = 0: only 0 is).
MultipleOf(x, d) == \E k \in 0 .. x : k * d = x

\* C6: validate_size_align(offset, align, len) returns Ok iff offset + len <=
\* buffer_len, offset + len does not overflow, and base + offset is a multiple of
\* align; on Ok the returned host address is base + offset.
C6_ValidateOkIff ==
    last.op = "validate_size_align" =>
        /\ (last.res.kind = "Ok") <=>
                /\ last.offset + last.len <= host.base_len
                /\ last.offset + last.len <= U32Max
                /\ MultipleOf(host.base + last.offset, last.align)
        /\ last.res.kind = "Ok" => last.res.val = host.base + last.offset

\* An aligned access that ends exactly at the end of guest memory.
C6_Witness ==
    /\ last.op = "validate_size_align"
    /\ last.res.kind = "Ok"
    /\ last.align = 2
    /\ last.len >= 1
    /\ last.offset + last.len = host.base_len

SizeTaking ==
    /\ last.op \in {"validate_size_align", "read", "write", "add", "slice_as_raw",
                    "str_as_raw"}
    /\ last.offset = U32Max
    /\ last.len >= 1

FlagT == FlagsTy("u8", NFlags)
FlagConsts == {EMPTY_FLAGS, ALL_FLAGS(FlagT)} \cup {Pow2(i) : i \in 0 .. NFlags - 1}
MemTypes == {FlagT, IntTy("u16"), HandleTy}
\* Aligned, misaligned (for the handle) and out-of-bounds locations.
MemOffsets == {0, MaxStart, U32Max}

\* Host values of a type offered to write.
Values(ty) ==
    CASE ty.kind = "flags" -> {flagval}
      [] ty.kind = "int" -> {Pow2(repr_bits(ty.repr)) - 2}
      [] ty.kind = "handle" -> {Word(3, 65535)}

InitMem ==
    /\ overflow_checks \in BOOLEAN
    /\ host \in {h \in Hosts : h.base = 8 /\ h.usize_max > U32Max}
    /\ mem = ZeroMem
    /\ borrows = <<>>
    /\ halted = FALSE
    /\ ptr = NoPtr
    /\ slice = NoSlice
    /\ flagval = EMPTY_FLAGS
    /\ last = NoOp

FlagConst(c) ==
    /\ flagval' = c
    /\ last' = [op |-> "flag_const"]
    /\ UNCHANGED <<overflow_checks, host, mem, borrows, halted, ptr, slice>>

FlagAnd(c) ==
    /\ flagval' = bitand(FlagT, flagval, c)
    /\ last' = [op |-> "bitand"]
    /\ UNCHANGED <<overflow_checks, host, mem, borrows, halted, ptr, slice>>

FlagOr(c) ==
    /\ flagval' = bitor(FlagT, flagval, c)
    /\ last' = [op |-> "bitor"]
    /\ UNCHANGED <<overflow_checks, host, mem, borrows, halted, ptr, slice>>

FlagXor(c) ==
    /\ flagval' = bitxor(FlagT, flagval, c)
    /\ last' = [op |-> "bitxor"]
    /\ UNCHANGED <<overflow_checks, host, mem, borrows, halted, ptr, slice>>

FlagNot ==
    /\ flagval' = not(FlagT, flagval)
    /\ last' = [op |-> "not"]
    /\ UNCHANGED <<overflow_checks, host, mem, borrows, halted, ptr, slice>>

Write(offset, ty, val) ==
    /\ LET w == write(mem, offset, ty, val)
       IN  /\ mem' = w.mem
           /\ last' = [op |-> "write", offset |-> offset, ty |-> ty, val |-> val,
                       res |-> w.res]
    /\ UNCHANGED <<overflow_checks, host, borrows, halted, ptr, slice, flagval>>

\* `prev` is the write this read immediately follows, if it follows one.
Read(offset, ty) ==
    /\ last' = [op |-> "read", offset |-> offset, ty |-> ty,
                res |-> read(mem, offset, ty),
                prev |-> IF last.op = "write" THEN last ELSE NoOp]
    /\ UNCHANGED <<overflow_checks, host, mem, borrows, halted, ptr, slice, flagval>>

NextMem ==
    \/ \E c \in FlagConsts : FlagConst(c)
    \/ \E c \in FlagConsts : FlagAnd(c)
    \/ \E c \in FlagConsts : FlagOr(c)
    \/ \E c \in FlagConsts : FlagXor(c)
    \/ FlagNot
    \/ \E offset \in MemOffsets, ty \in MemTypes : \E val \in Values(ty) : Write(offset, ty, val)
    \/ \E offset \in MemOffsets, ty \in MemTypes : Read(offset, ty)

SpecMem == InitMem /\ [][NextMem]_vars

(***************************************************************************)
(* Claims about typed reads and writes.                                    *)
(***************************************************************************)
\* C10: for every guest type (flag set, tagged int, handle), pointer and host value
\* v, flag values produced by the bitwise operators included, if write(ptr, v)
\* succeeds then the immediately following read(ptr) succeeds and returns v.
C10_WriteReadRoundTrip ==
    (/\ last.op = "read"
     /\ last.prev.op = "write"
     /\ last.prev.offset = last.offset
     /\ last.prev.ty = last.ty
     /\ last.prev.res.kind = "Ok")
        => last.res = Ok(last.prev.val)

(***************************************************************************)
(* SpecConv: the conversions of the emitted flag sets and tagged ints,     *)
(* each applied once to inputs drawn by the initial state.                 *)
(***************************************************************************)
\* Flag sets the emitted code compiles for: the literal ALL_FLAGS fits the repr.
FlagTypes ==
    {FlagsTy("u8", n) : n \in 0 .. 8} \cup {FlagsTy("u16", n) : n \in {0, 9, 16}}
IntTypes == {IntTy("u8"), IntTy("u16")}

\* Integers of the repr width: all of u8, a sample of u16.
ReprValues(repr) ==
    IF repr_size(repr) = 1 THEN 0 .. 255
    ELSE (0 .. U32Max) \cup {255, 256, 257, 511, 512, 32768, 65534, 65535}

\* Second operands of contains.
OtherValues == (0 .. 8) \cup {16, 128, 129, 254, 255}

\* ABI integers (i32): in and above the width of the 8- and 16-bit reprs, and negative.
AbiValues ==
    (0 .. 8) \cup {-65536, -256, -255, -1, 255, 256, 257, 259, 511, 65535, 65536, 65537,
                   65539, 16777216, 2147483647}

InitConv ==
    /\ overflow_checks \in BOOLEAN
    /\ host \in {h \in Hosts : h.base = 8 /\ h.usize_max > U32Max}
    /\ mem = TextMem
    /\ borrows = <<>>
    /\ halted = FALSE
    /\ ptr = NoPtr
    /\ slice = NoSlice
    /\ flagval = EMPTY_FLAGS
    /\ \/ \E ty \in FlagTypes \cup IntTypes :
            \E x \in ReprValues(ty.repr), y \in OtherValues :
                last = [op |-> "input", ty |-> ty, x |-> x, y |-> y]
       \/ \E ty \in FlagTypes, x \in AbiValues :
            last = [op |-> "abi_input", ty |-> ty, x |-> x]

FlagsTryFrom ==
    /\ last.op = "input" /\ last.ty.kind = "flags"
    /\ last' = [op |-> "flags_try_from", ty |-> last.ty, x |-> last.x,
                res |-> flags_try_from(last.ty, last.x)]
    /\ UNCHANGED <<overflow_checks, host, mem, borrows, halted, ptr, slice, flagval>>

Contains ==
    /\ last.op = "input" /\ last.ty.kind = "flags"
    /\ last' = [op |-> "contains", ty |-> last.ty, a |-> last.x, b |-> last.y,
                res |-> contains(last.ty, last.x, last.y)]
    /\ UNCHANGED <<overflow_checks, host, mem, borrows, halted, ptr, slice, flagval>>

IntTryFrom ==
    /\ last.op = "input" /\ last.ty.kind = "int"
    /\ last' = [op |-> "int_try_from", ty |-> last.ty, x |-> last.x,
                res |-> int_try_from(last.ty, last.x)]
    /\ UNCHANGED <<overflow_checks, host, mem, borrows, halted, ptr, slice, flagval>>

IntValidate ==
    /\ last.op = "input" /\ last.ty.kind = "int"
    /\ last' = [op |-> "int_validate", ty |-> last.ty, x |-> last.x,
                res |-> validate_transparent(last.ty)]
    /\ UNCHANGED <<overflow_checks, host, mem, borrows, halted, ptr, slice, flagval>>

\* The drawn integer is the pointer's offset.
IntRead ==
    /\ last.op = "input" /\ last.ty.kind = "int" /\ last.x \in U32
    /\ last' = [op |-> "int_read", ty |-> last.ty, offset |-> last.x,
                res |-> int_read(mem, last.x, last.ty)]
    /\ UNCHANGED <<overflow_checks, host, mem, borrows, halted, ptr, slice, flagval>>

FlagsTryFromAbi ==
    /\ last.op = "abi_input"
    /\ last' = [op |-> "flags_try_from_abi", ty |-> last.ty, x |-> last.x,
                res |-> flags_try_from_abi(last.ty, last.x)]
    /\ UNCHANGED <<overflow_checks, host, mem, borrows, halted, ptr, slice, flagval>>

NextConv ==
    \/ FlagsTryFrom
    \/ FlagsTryFromAbi
    \/ Contains
    \/ IntTryFrom
    \/ IntValidate
    \/ IntRead

SpecConv == InitConv /\ [][NextConv]_vars

(***************************************************************************)
(* Claims about the conversions.                                           *)
(***************************************************************************)
Bit(x, i) == (x \div Pow2(i)) % 2

\* C11: for a flag set with N declared flags, ALL_FLAGS has exactly the bits
\* 0 .. N-1 set, and TryFrom<repr>(x) is Ok(x) iff x has no bit at a position
\* >= N (x & !ALL_FLAGS = 0); otherwise it is InvalidFlagValue naming the type.
C11_TryFromOkIffInMask ==
    last.op = "flags_try_from" =>
        LET N == last.ty.nflags
            inside == \A i \in 0 .. repr_bits(last.ty.repr) - 1 :
                          Bit(last.x, i) = 1 => i < N
        IN  /\ \A i \in 0 .. repr_bits(last.ty.repr) - 1 :
                  (Bit(ALL_FLAGS(last.ty), i) = 1) <=> (i < N)
            /\ inside => last.res = Ok(last.x)
            /\ ~inside => last.res = InvalidFlagValue("flags")

C11_Witness ==
    /\ last.op = "flags_try_from"
    /\ last.ty.nflags = 3
    /\ last.x = 9
    /\ last.res.kind = "InvalidFlagValue"

\* C12: a.contains(b) is true iff every bit set in b is also set in a; in
\* particular a.contains(EMPTY_FLAGS) is true for every a.
C12_ContainsIffSubset ==
    last.op = "contains" =>
        /\ last.res = (\A i \in 0 .. repr_bits(last.ty.repr) - 1 :
                          Bit(last.b, i) = 1 => Bit(last.a, i) = 1)
        /\ (last.b = EMPTY_FLAGS => last.res = TRUE)

C12_Witness ==
    /\ last.op = "contains"
    /\ last.a = 5
    /\ last.b = 4
    /\ last.res = TRUE

\* C19: a tagged int accepts every integer of the repr width: TryFrom<repr>(x) is
\* Ok(x), validate is Ok, and read fails only with a pointer error (overflow,
\* out of bounds, misalignment), never with a validity error.
C19_IntAcceptsAll ==
    /\ last.op = "int_try_from" => last.res = Ok(last.x)
    /\ last.op = "int_validate" => last.res.kind = "Ok"
    /\ last.op = "int_read" =>
          /\ last.res.kind \in {"Ok", "PtrOverflow", "PtrOutOfBounds", "PtrNotAligned"}
          /\ (last.offset + guest_size(last.ty) <= MemLen
              /\ last.offset % guest_align(last.ty) = 0) => last.res.kind = "Ok"

C19_Witness ==
    /\ last.op = "int_try_from"
    /\ last.ty = IntTy("u16")
    /\ last.x = 65535
    /\ last.res.kind = "Ok"

(***************************************************************************)
(* Claims about raw views taken against the ledger (Spec) and about        *)
(* panics of the checked operations (SpecProvider).                        *)
(***************************************************************************)
\* C13: string as_raw on in-bounds bytes returns Ok iff the bytes are valid UTF-8
\* and the ledger holds no region overlapping (base, byte length); an overlapping
\* held borrow yields PtrBorrowed, and invalid UTF-8 (with no overlap) InvalidUtf8.
C13_StrAsRawOkIff ==
    (last.op = "str_as_raw" /\ last.self.base + last.self.len <= MemLen) =>
        LET r == Region(last.self.base, last.self.len)
            held == \E b \in Entries(last.pre) : SharesByte(b, r)
            valid == from_utf8(mem, last.self.base, last.self.len)
        IN  /\ (last.res.kind = "Ok") <=> (valid /\ ~held)
            /\ held => last.res = PtrBorrowed(r)
            /\ (~held /\ ~valid) => last.res = InvalidUtf8

\* C14: as_raw on a zero-length slice (aligned, in bounds) succeeds with an empty
\* result whatever the ledger holds, and every borrow the ledger accepted before
\* the call it still accepts after it.
C14_ZeroLenSliceAsRaw ==
    (/\ last.op = "slice_as_raw"
     /\ last.self.len = 0
     /\ last.self.base <= MemLen
     /\ last.self.base % guest_align(last.self.ty) = 0) =>
        /\ last.res = Ok([data |-> host.base + last.self.base, len |-> 0])
        /\ \A r \in RegionInputs :
              borrow(last.pre, r).res.kind = "Ok" => borrow(borrows, r).res.kind = "Ok"

\* C20: no call to validate_size_align, add or as_raw panics, whatever the offset,
\* the length, the alignment (0 included) and the base address: every failure is
\* an error value.
C20_NoPanic ==
    last.op \in {"validate_size_align", "add", "slice_as_raw", "str_as_raw"} =>
        last.res.kind # "panic"

(***************************************************************************)
(* The generator: schema types and their emission (imp.rs, flags.rs).      *)
(* A schema node is [kind, name, n, subs]: a witx::Type ("enum", "int",    *)
(* "flags" with n flags, "struct", "union", "handle", "builtin" called     *)
(* name, "pointer", "constpointer", "array"), a witx::TypeRef ("ref_name"  *)
(* of the named type subs[1], "ref_value" of the type subs[1]) or a        *)
(* witx::NamedType ("named", called name, with the type reference subs[1]).*)
(***************************************************************************)
Node(kind, name, n, subs) == [kind |-> kind, name |-> name, n |-> n, subs |-> subs]
Builtin(b) == Node("builtin", b, 0, <<>>)
Flags(n) == Node("flags", "", n, <<>>)
Plain(kind) == Node(kind, "", 0, <<>>)
Wrap(kind, tref) == Node(kind, "", 0, <<tref>>)
Members(kind, trefs) == Node(kind, "", 0, trefs)
Value(ty) == Node("ref_value", "", 0, <<ty>>)
Name(nt) == Node("ref_name", "", 0, <<nt>>)
NamedType(name, tref) == Node("named", name, 0, <<tref>>)

Modes == {"Host", "Wasi32", "Wasi"}

include_target_types(mode) == mode \in {"Host", "Wasi32"}

\* The emitted tokens are not modelled: emission either completes or panics.
Emitted == [kind |-> "Ok", val |-> "tokens"]
IsPanic(res) == res.kind = "panic"

\* Bits of the u128 whose checked_shl computes a flag's value.
U128_BITS == 128

\* 1u128.checked_shl(index).expect("flag value overflow"), for each flag in turn.
flag_values(n) ==
    IF \E index \in 0 .. n - 1 : index >= U128_BITS
    THEN Panic("flag value overflow")
    ELSE Emitted

builtin_tokens(mode, builtin) ==
    IF builtin = "string" /\ mode = "Wasi"
    THEN Panic("strings have target-specific size")
    ELSE Emitted

RECURSIVE tref_tokens(_, _)
tref_tokens(mode, tref) ==
    IF tref.kind = "ref_name" THEN Emitted
    ELSE LET v == tref.subs[1]
         IN  CASE v.kind = "builtin" -> builtin_tokens(mode, v.name)
               [] v.kind \in {"pointer", "constpointer"} ->
                    LET pointee == tref_tokens(mode, v.subs[1])
                    IN  IF IsPanic(pointee) THEN pointee
                        ELSE IF mode = "Wasi"
                            THEN Panic("pointers have target-specific size")
                        ELSE Emitted
               [] v.kind = "array" ->
                    LET element_name == tref_tokens(mode, v.subs[1])
                    IN  IF IsPanic(element_name) THEN element_name
                        ELSE IF mode = "Wasi"
                            THEN Panic("arrays have target-specific size")
                        ELSE Emitted
               [] OTHER -> Panic("cannot give name to anonymous type")

\* The members of a struct or union in order, up to the first panic.
RECURSIVE members_tokens(_, _, _)
members_tokens(mode, members, i) ==
    IF i > Len(members) THEN Emitted
    ELSE LET member_type == tref_tokens(mode, members[i])
         IN  IF IsPanic(member_type) THEN member_type
             ELSE members_tokens(mode, members, i + 1)

gen_datatype(mode, namedtype) ==
    LET tref == namedtype.subs[1]
    IN  IF tref.kind = "ref_name" THEN tref_tokens(mode, tref.subs[1].subs[1])
        ELSE LET v == tref.subs[1]
             IN  CASE v.kind \in {"enum", "int", "handle"} -> Emitted
                   [] v.kind = "flags" -> flag_values(v.n)
                   [] v.kind \in {"struct", "union"} -> members_tokens(mode, v.subs, 1)
                   [] v.kind = "builtin" ->
                        IF namedtype.name = "size"
                        THEN IF mode = "Wasi" THEN Panic("size has target-specific size")
                             ELSE Emitted
                        ELSE builtin_tokens(mode, v.name)
                   [] v.kind \in {"pointer", "constpointer", "array"} ->
                        tref_tokens(mode, tref)

\* TypeRef::type_: the type a reference stands for, named references resolved.
RECURSIVE type_(_)
type_(tref) ==
    IF tref.kind = "ref_name" THEN type_(tref.subs[1].subs[1]) ELSE tref.subs[1]

\* A test that looks at the struct's own members only.
struct_has_union_direct(s) ==
    \E i \in 1 .. Len(s.subs) : type_(s.subs[i]).kind = "union"

\* Test whether the given struct contains any union members.
RECURSIVE struct_has_union(_)
struct_has_union(s) ==
    \E i \in 1 .. Len(s.subs) :
        LET member == type_(s.subs[i])
        IN  CASE member.kind = "union" -> TRUE
              [] member.kind = "struct" -> struct_has_union(member)
              [] OTHER -> FALSE

\* The traits of the #[derive(...)] that gen_datatype puts on the named type.
derives(namedtype) ==
    LET tref == namedtype.subs[1]
    IN  IF tref.kind = "ref_name" THEN {}
        ELSE LET v == tref.subs[1]
             IN  CASE v.kind \in {"enum", "flags"} ->
                        {"Copy", "Clone", "Debug", "Hash", "Eq", "PartialEq"}
                   [] v.kind = "struct" ->
                        IF struct_has_union(v) THEN {"Copy", "Clone"}
                        ELSE {"Copy", "Clone", "Debug", "Hash", "Eq", "PartialEq"}
                   [] v.kind = "union" -> {"Copy", "Clone"}
                   [] OTHER -> {}

RECURSIVE tref_has_target_size(_)
RECURSIVE namedtype_has_target_size(_)
RECURSIVE type_has_target_size(_)
tref_has_target_size(tref) ==
    IF tref.kind = "ref_name" THEN namedtype_has_target_size(tref.subs[1])
    ELSE type_has_target_size(tref.subs[1])

namedtype_has_target_size(nt) ==
    IF nt.name = "size" THEN TRUE ELSE tref_has_target_size(nt.subs[1])

type_has_target_size(ty) ==
    CASE ty.kind = "builtin" /\ ty.name = "string" -> TRUE
      [] ty.kind \in {"pointer", "constpointer"} -> TRUE
      [] ty.kind = "array" -> tref_has_target_size(ty.subs[1])
      [] ty.kind \in {"struct", "union"} ->
            \E i \in 1 .. Len(ty.subs) : tref_has_target_size(ty.subs[i])
      [] OTHER -> FALSE

\* gen_datatypes over the document's named types in order, up to the first panic:
\* the names emitted, and the panic if there was one.
RECURSIVE gen_datatypes(_, _, _, _)
gen_datatypes(doc, mode, i, output) ==
    IF i > Len(doc) THEN [output |-> output, res |-> Emitted]
    ELSE IF include_target_types(mode) # namedtype_has_target_size(doc[i])
        THEN gen_datatypes(doc, mode, i + 1, output)
    ELSE LET res == gen_datatype(mode, doc[i])
         IN  IF IsPanic(res) THEN [output |-> output, res |-> res]
             ELSE gen_datatypes(doc, mode, i + 1, Append(output, doc[i]))

\* define_flags: the flag constructors and ALL_FLAGS of a flag set with n flags.
define_flags(repr, n) == flag_values(n)

(***************************************************************************)
(* SpecGen: one emission, of a document or of a flag set, drawn by the     *)
(* initial state.                                                          *)
(***************************************************************************)
MaxMembers == 2

Builtins == {"string", "u8", "usize"}
FlagCounts == {0, 2, 64, 65, U128_BITS, U128_BITS + 1}
FlagReprs == {"u8", "u16", "u32", "u64"}

LeafTypes ==
    {Plain("enum"), Plain("int"), Plain("handle")}
        \cup {Flags(n) : n \in FlagCounts} \cup {Builtin(b) : b \in Builtins}

\* Type references usable as a member, pointee or element.
Refs0 ==
    {Value(Builtin(b)) : b \in Builtins}
        \cup {Name(NamedType("size", Value(Builtin("usize")))),
              Name(NamedType("fd", Value(Plain("handle")))),
              Name(NamedType("buf", Value(Wrap("pointer", Value(Builtin("u8")))))),
              Name(NamedType("u", Value(Members("union", <<Value(Builtin("u8"))>>))))}

MemberLists(refs) == UNION {[1 .. k -> refs] : k \in 1 .. MaxMembers}

Types1 ==
    {Wrap(kind, r) : kind \in {"pointer", "constpointer", "array"}, r \in Refs0}
        \cup {Members(kind, ms) : kind \in {"struct", "union"}, ms \in MemberLists(Refs0)}

Refs1 == {Value(t) : t \in Types1} \cup {Name(NamedType("inner", Value(t))) : t \in Types1}

Types2 ==
    {Wrap(kind, r) : kind \in {"pointer", "array"}, r \in Refs1}
        \cup {Members(kind, <<r>>) : kind \in {"struct", "union"}, r \in Refs1}

NamedTypes ==
    {NamedType(name, Value(t)) : name \in {"size", "t"},
                                 t \in LeafTypes \cup Types1 \cup Types2}
        \cup {NamedType("t", r) : r \in {q \in Refs0 : q.kind = "ref_name"}}

\* Documents: one named type, alone or after the `size` typename.
Docs ==
    {<<nt>> : nt \in NamedTypes}
        \cup {<<NamedType("size", Value(Builtin("usize"))), nt>> : nt \in NamedTypes}

InitGen ==
    /\ overflow_checks = FALSE
    /\ host \in {h \in Hosts : h.base = 8 /\ h.usize_max > U32Max}
    /\ mem = ZeroMem
    /\ borrows = <<>>
    /\ halted = FALSE
    /\ ptr = NoPtr
    /\ slice = NoSlice
    /\ flagval = EMPTY_FLAGS
    /\ \/ \E mode \in Modes, doc \in Docs :
            last = [op |-> "schema", mode |-> mode, doc |-> doc]
       \/ \E repr \in FlagReprs, n \in FlagCounts :
            last = [op |-> "flagset", repr |-> repr, n |-> n]

GenDatatypes ==
    /\ last.op = "schema"
    /\ LET g == gen_datatypes(last.doc, last.mode, 1, <<>>)
       IN  last' = [op |-> "gen_datatypes", mode |-> last.mode, doc |-> last.doc,
                    output |-> g.output, res |-> g.res,
                    derives |-> [i \in 1 .. Len(g.output) |-> derives(g.output[i])]]
    /\ UNCHANGED <<overflow_checks, host, mem, borrows, halted, ptr, slice, flagval>>

DefineFlags ==
    /\ last.op = "flagset"
    /\ last' = [op |-> "define_flags", repr |-> last.repr, n |-> last.n,
                res |-> define_flags(last.repr, last.n)]
    /\ UNCHANGED <<overflow_checks, host, mem, borrows, halted, ptr, slice, flagval>>

NextGen ==
    \/ GenDatatypes
    \/ DefineFlags

SpecGen == InitGen /\ [][NextGen]_vars

(***************************************************************************)
(* Claims about the generator.                                             *)
(***************************************************************************)
\* C17: emitting a flag set that declares more than 64 bit positions is rejected
\* at emission time with an overflow error, for every repr (by define_flags, and
\* by gen_datatype when the flag set is the document's type to emit).
C17_MoreThan64FlagsRejected ==
    /\ (last.op = "define_flags" /\ last.n > 64) =>
            last.res = Panic("flag value overflow")
    /\ (/\ last.op = "gen_datatypes"
        /\ last.mode = "Wasi"
        /\ Len(last.doc) = 1
        /\ last.doc[1].subs[1].kind = "ref_value"
        /\ last.doc[1].subs[1].subs[1].kind = "flags"
        /\ last.doc[1].name # "size"
        /\ last.doc[1].subs[1].subs[1].n > 64) =>
            last.res = Panic("flag value overflow")

RECURSIVE AbiDependentRef(_)
RECURSIVE AbiDependentNamed(_)
RECURSIVE AbiDependentType(_)
\* A type whose size depends on the ABI: the size builtin, string, any pointer,
\* any array, any record or union transitively containing one of these.
AbiDependentRef(tref) ==
    IF tref.kind = "ref_name" THEN AbiDependentNamed(tref.subs[1])
    ELSE AbiDependentType(tref.subs[1])

AbiDependentNamed(nt) == nt.name = "size" \/ AbiDependentRef(nt.subs[1])

AbiDependentType(ty) ==
    \/ ty.kind = "builtin" /\ ty.name = "string"
    \/ ty.kind \in {"pointer", "constpointer", "array"}
    \/ /\ ty.kind \in {"struct", "union"}
       /\ \E i \in 1 .. Len(ty.subs) : AbiDependentRef(ty.subs[i])

TargetSizePanics ==
    {Panic("size has target-specific size"), Panic("strings have target-specific size"),
     Panic("pointers have target-specific size"), Panic("arrays have target-specific size")}

\* C18: emission in Mode::Wasi emits no named type whose size is ABI-dependent and
\* never reaches a 'target-specific size' panic.
C18_WasiSkipsTargetTypes ==
    (last.op = "gen_datatypes" /\ last.mode = "Wasi") =>
        /\ \A i \in 1 .. Len(last.output) : ~AbiDependentNamed(last.output[i])
        /\ last.res \notin TargetSizePanics

(***************************************************************************)
(* Trampolines: the emitted glue of an imported function, the user's       *)
(* handler and error-code conversion. A call is one step; its record holds *)
(* the returned code, the errors from_error pushed on the context, the     *)
(* number of handler invocations and the memory after the call.            *)
(***************************************************************************)
\* Two's-complement little-endian bytes of an i32, and of an i64 within i32 range.
i32_bytes(v) == [i \in 0 .. 3 |-> (v \div Pow2(8 * i)) % 256]
i64_bytes(v) == [i \in 0 .. 7 |-> IF i < 4 THEN i32_bytes(v)[i] ELSE IF v < 0 THEN 255 ELSE 0]

i32_value(m, offset) ==
    m[offset] + 256 * m[offset + 1] + 65536 * m[offset + 2]
        + 16777216 * (IF m[offset + 3] >= 128 THEN m[offset + 3] - 256 ELSE m[offset + 3])

store_bytes(m, offset, bytes) ==
    [a \in DOMAIN m |->
        IF a >= offset /\ a < offset + Cardinality(DOMAIN bytes)
        THEN bytes[a - offset] ELSE m[a]]

\* GuestErrorType for Errno: success, and from_error pushing the error on the
\* context and mapping it to InvalidArg.
success == "Ok"

from_error(e, guest_errors) == [code |-> "InvalidArg", guest_errors |-> Append(guest_errors, e)]

\* A call that ended in from_error before the handler ran.
Rejected(e, m) ==
    LET f == from_error(e, <<>>)
    IN  [ret |-> f.code, guest_errors |-> f.guest_errors, handler_calls |-> 0, mem |-> m]

\* Reading the record PairInts {first: s32, second: s32} by value.
pair_ints_read(m, offset) ==
    LET v == validate_size_align(offset, 4, 8)
    IN  IF v.kind # "Ok" THEN v
        ELSE Ok([first |-> i32_value(m, offset), second |-> i32_value(m, offset + 4)])

\* The handler of sum_of_pair where the second operand is mistaken for the first.
sum_of_pair_first_twice(an_pair) == Ok(an_pair.first + an_pair.first)

\* Foo::sum_of_pair as the tests implement it.
sum_of_pair(an_pair) == Ok(an_pair.first + an_pair.second)

\* The trampoline foo::sum_of_pair(ctx, memory, an_pair: i32, result: i32).
foo_sum_of_pair(m, an_pair_ptr, result_ptr) ==
    LET an_pair == pair_ints_read(m, an_pair_ptr)
    IN  IF an_pair.kind # "Ok" THEN Rejected(an_pair, m)
        ELSE LET e == sum_of_pair(an_pair.val)
                 w == validate_size_align(result_ptr, 8, 8)
             IN  IF w.kind # "Ok"
                 THEN LET f == from_error(w, <<>>)
                      IN  [ret |-> f.code, guest_errors |-> f.guest_errors,
                           handler_calls |-> 1, mem |-> m]
                 ELSE [ret |-> success, guest_errors |-> <<>>, handler_calls |-> 1,
                       mem |-> store_bytes(m, result_ptr, i64_bytes(e.val))]

\* The handler of hello_string: the byte length of the string it was given.
hello_string(a_string) == Ok(a_string.len)

\* The trampoline foo::hello_string(ctx, memory, a_string_ptr, a_string_len, result).
foo_hello_string(m, a_string_ptr, a_string_len, result_ptr) ==
    LET a_string == str_as_raw([base |-> a_string_ptr, len |-> a_string_len,
                                ty |-> PrimTy("u8")], <<>>, m)
    IN  IF a_string.res.kind # "Ok" THEN Rejected(a_string.res, m)
        ELSE LET e == hello_string(a_string.res.val)
                 w == validate_size_align(result_ptr, 4, 4)
             IN  IF w.kind # "Ok"
                 THEN LET f == from_error(w, <<>>)
                      IN  [ret |-> f.code, guest_errors |-> f.guest_errors,
                           handler_calls |-> 1, mem |-> m]
                 ELSE [ret |-> success, guest_errors |-> <<>>, handler_calls |-> 1,
                       mem |-> store_bytes(m, result_ptr, i32_bytes(e.val))]

(***************************************************************************)
(* SpecTramp: one trampoline call on a guest buffer that spans the         *)
(* modelled address space, with arguments drawn by the initial state.      *)
(***************************************************************************)
TrampMemLen == Pow2(Width)
TrampHost == [usize_max |-> Pow2(2 * Width) - 1, base |-> TrampMemLen, base_len |-> TrampMemLen]

PairValues == {-1073741824, -2, -1, 0, 1, 2, 1073741823}

ZeroBuffer == [a \in 0 .. TrampMemLen - 1 |-> 0]
\* The Greek letters alpha and beta in UTF-8, then NULs.
GreekBuffer ==
    [a \in 0 .. TrampMemLen - 1 |->
        CASE a = 0 -> 206 [] a = 1 -> 177 [] a = 2 -> 206 [] a = 3 -> 178 [] OTHER -> 0]
\* The same with one byte in the middle made invalid.
FlippedBuffer == [GreekBuffer EXCEPT ![2] = 255]

\* The harness stores the pair where the location can hold it.
PairBuffer(first, second, loc) ==
    IF loc % 4 = 0 /\ loc + 8 <= TrampMemLen
    THEN store_bytes(store_bytes(ZeroBuffer, loc, i32_bytes(first)), loc + 4, i32_bytes(second))
    ELSE ZeroBuffer

StringLens == (0 .. 5) \cup {U32Max}

InitTramp ==
    /\ overflow_checks \in BOOLEAN
    /\ host = TrampHost
    /\ borrows = <<>>
    /\ halted = FALSE
    /\ ptr = NoPtr
    /\ slice = NoSlice
    /\ flagval = EMPTY_FLAGS
    /\ \/ \E first \in PairValues, second \in PairValues, an_pair \in U32, result \in U32 :
            /\ last = [op |-> "call_sum_of_pair", first |-> first, second |-> second,
                       an_pair |-> an_pair, result |-> result]
            /\ mem = PairBuffer(first, second, an_pair)
       \/ \E a_string \in U32, len \in StringLens, result \in U32 :
            /\ last = [op |-> "call_hello_string", a_string |-> a_string, len |-> len,
                       result |-> result]
            /\ mem \in {GreekBuffer, FlippedBuffer}

SumOfPair ==
    /\ last.op = "call_sum_of_pair"
    /\ LET out == foo_sum_of_pair(mem, last.an_pair, last.result)
       IN  /\ mem' = out.mem
           /\ last' = [op |-> "sum_of_pair", first |-> last.first, second |-> last.second,
                       an_pair |-> last.an_pair, result |-> last.result,
                       pre |-> mem, out |-> out]
    /\ UNCHANGED <<overflow_checks, host, borrows, halted, ptr, slice, flagval>>

HelloString ==
    /\ last.op = "call_hello_string"
    /\ LET out == foo_hello_string(mem, last.a_string, last.len, last.result)
       IN  /\ mem' = out.mem
           /\ last' = [op |-> "hello_string", a_string |-> last.a_string, len |-> last.len,
                       result |-> last.result, pre |-> mem, out |-> out]
    /\ UNCHANGED <<overflow_checks, host, borrows, halted, ptr, slice, flagval>>

NextTramp ==
    \/ SumOfPair
    \/ HelloString

SpecTramp == InitTramp /\ [][NextTramp]_vars

(***************************************************************************)
(* Claims about trampoline calls.                                          *)
(***************************************************************************)
InBuffer(loc, size, align) == loc % align = 0 /\ loc + size <= TrampMemLen
Apart(a, la, b, lb) == a + la <= b \/ b + lb <= a
PointerErrors == {"PtrOverflow", "PtrOutOfBounds", "PtrNotAligned"}

\* What a call looks like when an argument was refused with an error of `kinds`:
\* from_error ran once, with that error; the handler did not run; no byte of the
\* guest changed; the call returned from_error's code.
RefusedWith(kinds) ==
    /\ Len(last.out.guest_errors) = 1
    /\ last.out.guest_errors[1].kind \in kinds
    /\ last.out.handler_calls = 0
    /\ mem = last.pre
    /\ last.out.ret = "InvalidArg"

C16_SuccessWritesResult ==
    /\ (/\ last.op = "sum_of_pair"
        /\ InBuffer(last.an_pair, 8, 4)
        /\ InBuffer(last.result, 8, 8)
        /\ Apart(last.an_pair, 8, last.result, 8)) =>
            /\ last.out.ret = "Ok"
            /\ last.out.guest_errors = <<>>
            /\ last.out.handler_calls = 1
            /\ i32_value(mem, last.result) = last.first + last.second
            /\ \A a \in last.result + 4 .. last.result + 7 :
                  mem[a] = IF last.first + last.second < 0 THEN 255 ELSE 0
    /\ (/\ last.op = "hello_string"
        /\ last.a_string + last.len <= TrampMemLen
        /\ from_utf8(last.pre, last.a_string, last.len)
        /\ InBuffer(last.result, 4, 4)
        /\ Apart(last.a_string, last.len, last.result, 4)) =>
            /\ last.out.ret = "Ok"
            /\ last.out.guest_errors = <<>>
            /\ last.out.handler_calls = 1
            /\ i32_value(mem, last.result) = last.len

C16_Witness ==
    /\ last.op = "sum_of_pair"
    /\ last.first = 1
    /\ last.second = 2
    /\ last.an_pair = 0
    /\ last.result = 8
    /\ last.out.ret = "Ok"
    /\ i32_value(mem, 8) = 3

(***************************************************************************)
(* Claims about the order of the checks.                                   *)
(***************************************************************************)
\* The outcome of validate_size_align when its checks are made in the order
\* overflow, bounds, alignment, the misalignment error carrying `carried`.
ChecksInOrder(carried) ==
    LET start == host.base + last.offset
        region == [start |-> last.offset, len |-> last.len]
    IN  IF start + last.len > host.usize_max THEN last.res.kind = "PtrOverflow"
        ELSE IF last.offset + last.len > host.base_len
            THEN last.res = [kind |-> "PtrOutOfBounds", region |-> region]
        ELSE IF ~MultipleOf(start, last.align)
            THEN last.res = [kind |-> "PtrNotAligned", region |-> region, align |-> carried]
        ELSE last.res.kind = "Ok"

C22_SliceAsRawStepOrder ==
    last.op = "slice_as_raw" =>
        LET bytes == last.self.len * guest_size(last.self.ty)
            start == host.base + last.self.base
            region == [start |-> last.self.base, len |-> bytes]
        IN  IF bytes > U32Max
                THEN last.res.kind = "PtrOverflow" /\ borrows = last.pre
            ELSE IF start + bytes > host.usize_max
                THEN last.res.kind = "PtrOverflow" /\ borrows = last.pre
            ELSE IF last.self.base + bytes > host.base_len
                THEN /\ last.res = [kind |-> "PtrOutOfBounds", region |-> region]
                     /\ borrows = last.pre
            ELSE IF ~MultipleOf(start, guest_align(last.self.ty))
                THEN /\ last.res.kind = "PtrNotAligned"
                     /\ last.res.region = region
                     /\ borrows = last.pre
            ELSE /\ last.res.kind \in {"Ok", "PtrBorrowed", "panic"}
                 /\ last.res.kind = "Ok" => borrows = Append(last.pre, region)
                 /\ last.res.kind = "PtrBorrowed" =>
                        last.res.region = region /\ borrows = last.pre

\* A slice refused for its alignment although its bytes are free, with entries
\* already in the ledger.
C22_Witness ==
    /\ last.op = "slice_as_raw"
    /\ last.res.kind = "PtrNotAligned"
    /\ Len(last.pre) >= 1
    /\ \A i \in 1 .. Len(last.pre) :
            ~SharesByte(last.pre[i], Region(last.self.base,
                                            last.self.len * guest_size(last.self.ty)))
    /\ borrows = last.pre

(***************************************************************************)
(* Claims about the derives of emitted records.                            *)
(***************************************************************************)
\* The type a member stands for, through any chain of names.
RECURSIVE Resolve(_)
Resolve(tref) == IF tref.kind = "ref_name" THEN Resolve(tref.subs[1].subs[1]) ELSE tref.subs[1]

\* The record itself and every record reached from it through record fields.
RECURSIVE NestedRecords(_)
NestedRecords(rec) ==
    {rec} \cup UNION {NestedRecords(Resolve(rec.subs[i])) :
                        i \in {j \in 1 .. Len(rec.subs) : Resolve(rec.subs[j]).kind = "struct"}}

ContainsUnion(rec) ==
    \E r \in NestedRecords(rec) : \E i \in 1 .. Len(r.subs) : Resolve(r.subs[i]).kind = "union"

IsRecord(namedtype) ==
    namedtype.subs[1].kind = "ref_value" /\ namedtype.subs[1].subs[1].kind = "struct"

\* C23: an emitted record derives only Copy and Clone iff it contains a union,
\* directly or through nested record fields (named references resolved); every
\* other record derives Copy, Clone, Debug, Hash, Eq and PartialEq.
C23_RecordDerives ==
    last.op = "gen_datatypes" =>
        \A i \in 1 .. Len(last.output) :
            IsRecord(last.output[i]) =>
                last.derives[i] =
                    IF ContainsUnion(last.output[i].subs[1].subs[1])
                    THEN {"Copy", "Clone"}
                    ELSE {"Copy", "Clone", "Debug", "Hash", "Eq", "PartialEq"}

\* An emitted record whose only union is a field of a nested record.
C23_Witness ==
    /\ last.op = "gen_datatypes"
    /\ \E i \in 1 .. Len(last.output) :
            /\ IsRecord(last.output[i])
            /\ LET rec == last.output[i].subs[1].subs[1]
               IN  /\ ContainsUnion(rec)
                   /\ \A j \in 1 .. Len(rec.subs) : Resolve(rec.subs[j]).kind = "struct"
            /\ last.derives[i] = {"Copy", "Clone"}

(***************************************************************************)
(* Further claims about the ledger and Region::overlaps.                   *)
(***************************************************************************)
\* C24: a slice or string as_raw call that fails, whichever check failed, leaves
\* the ledger exactly as it was before the call.
C24_FailedAsRawLeavesLedger ==
    (last.op \in {"slice_as_raw", "str_as_raw"} /\ last.res.kind # "Ok") =>
        borrows = last.pre

\* C25: for regions A and B with len >= 1, A.overlaps(B) = B.overlaps(A).
C25_OverlapsSymmetric ==
    (last.op = "overlaps" /\ last.self.len >= 1 /\ last.rhs.len >= 1) =>
        ((last.res = "true") <=> overlaps(last.rhs, last.self))

\* Two regions of different lengths that overlap, asked in one order.
C25_Witness ==
    /\ last.op = "overlaps"
    /\ last.self.len >= 1
    /\ last.rhs.len > last.self.len
    /\ last.res = "true"
    /\ overlaps(last.rhs, last.self)

\* C26: every step leaves the ledger as it was or appends exactly the requested
\* region to it, and the appended region overlaps no entry the ledger already held
\* (so a borrow overlapping an earlier successful one never succeeds).
C26_LedgerOnlyGrows ==
    [][\/ borrows' = borrows
       \/ /\ Len(borrows') = Len(borrows) + 1
          /\ SubSeq(borrows', 1, Len(borrows)) = borrows
          /\ last'.op \in {"borrow", "borrow_pointee"} =>
                borrows'[Len(borrows')] = last'.r
          /\ \A b \in Entries(borrows) : ~SharesByte(b, borrows'[Len(borrows')])]_vars

(***************************************************************************)
(* Claims about the values of flag sets.                                   *)
(***************************************************************************)
\* C27: a flag value built from the flag constants, EMPTY_FLAGS and ALL_FLAGS with
\* and, or, xor and not has no bit outside ALL_FLAGS: TryFrom<repr> of its raw value
\* returns Ok.
C27_OperatorsStayInMask ==
    /\ \A i \in 0 .. repr_bits(FlagT.repr) - 1 : Bit(flagval, i) = 1 => i < NFlags
    /\ flags_try_from(FlagT, flagval).kind = "Ok"

\* C28: TryFrom of the ABI integer into a flag set with N flags returns Ok only for
\* values whose whole ABI-width bit pattern lies in the mask (bits 0 .. N-1), and
\* InvalidFlagValue for every other value, bits above the repr's width included.
\* (A negative i32 has bit 31 set, which no mask of an 8- or 16-bit repr holds.)
C28_AbiTryFromRejectsOutsideMask ==
    last.op = "flags_try_from_abi" =>
        LET inside == /\ last.x >= 0
                      /\ \A i \in 0 .. 30 : Bit(last.x, i) = 1 => i < last.ty.nflags
        IN  /\ inside => last.res.kind = "Ok"
            /\ ~inside => last.res = InvalidFlagValue("flags")

(***************************************************************************)
(* The test support crate: areas of the test HostMemory.                   *)
(***************************************************************************)
\* Bytes of the test HostMemory (4096 in the crate).
HostLen == 5

MemArea(p, len) == [ptr |-> p, len |-> len]

\* MemArea::overlapping: some element of one half-open range lies in the other.
overlapping(self, b) ==
    \/ \E b_elem \in b.ptr .. (b.ptr + b.len - 1) :
            b_elem >= self.ptr /\ b_elem < self.ptr + self.len
    \/ \E a_elem \in self.ptr .. (self.ptr + self.len - 1) :
            a_elem >= b.ptr /\ a_elem < b.ptr + b.len

non_overlapping_set(areas) ==
    \A a \in areas : \A b \in areas \ {a} : ~overlapping(a, b)

\* MemArea::inside: the areas yielded, in order.
inside(self, len) ==
    LET end == len - self.len
        start == self.ptr
    IN  [v \in 1 .. end |-> MemArea(start + (v - 1), len)]

\* The order of a MemSet (a BTreeSet of areas): by ptr, then by len.
RECURSIVE iter(_)
iter(regions) ==
    IF regions = {} THEN <<>>
    ELSE LET first == CHOOSE a \in regions :
                        \A b \in regions : a.ptr < b.ptr \/ (a.ptr = b.ptr /\ a.len <= b.len)
         IN  <<first>> \o iter(regions \ {first})

\* The loop of HostMemory::invert from the i-th area on, then the final gap.
\* `r.ptr - start` underflows when an area starts before the previous one ends:
\* a panic where overflow checks are on, a wrapped length otherwise.
RECURSIVE invert_from(_, _, _, _)
invert_from(rs, i, start, out) ==
    IF i > Len(rs)
    THEN [res |-> Ok(0),
          out |-> IF start < HostLen THEN out \cup {MemArea(start, HostLen - start)}
                  ELSE out]
    ELSE LET r == rs[i]
             len == (r.ptr - start) % (U32Max + 1)
         IN  IF overflow_checks /\ r.ptr < start
             THEN [res |-> Panic("attempt to subtract with overflow"), out |-> out]
             ELSE invert_from(rs, i + 1, r.ptr + r.len,
                              IF len > 0 THEN out \cup {MemArea(start, len)} ELSE out)

\* An inversion that forgets the gap after the last area.
invert_without_tail(regions) ==
    LET g == invert_from(iter(regions), 1, 0, {})
    IN  [res |-> g.res, out |-> {a \in g.out : a.ptr + a.len < HostLen}]

\* HostMemory::invert
invert(regions) == invert_from(iter(regions), 1, 0, {})

(***************************************************************************)
(* SpecTest: one call of inside or of invert, on inputs drawn by the       *)
(* initial state.                                                          *)
(***************************************************************************)
\* Areas within the memory, empty ones included.
Areas ==
    {a \in {MemArea(p, len) : p \in 0 .. HostLen, len \in 0 .. HostLen} :
        a.ptr + a.len <= HostLen}

\* Sets of at most three areas.
MemSets == {{}} \cup {{a, b, c} : a \in Areas, b \in Areas, c \in Areas}

InitTest ==
    /\ overflow_checks \in BOOLEAN
    /\ host \in {h \in Hosts : h.base = 8 /\ h.usize_max > U32Max}
    /\ mem = ZeroMem
    /\ borrows = <<>>
    /\ halted = FALSE
    /\ ptr = NoPtr
    /\ slice = NoSlice
    /\ flagval = EMPTY_FLAGS
    /\ \/ \E self \in Areas, len \in 0 .. HostLen + 1 :
            last = [op |-> "area", self |-> self, len |-> len]
       \/ \E regions \in MemSets :
            last = [op |-> "regions", regions |-> regions]

Inside ==
    /\ last.op = "area"
    /\ last' = [op |-> "inside", self |-> last.self, len |-> last.len,
                res |-> inside(last.self, last.len)]
    /\ UNCHANGED <<overflow_checks, host, mem, borrows, halted, ptr, slice, flagval>>

Invert ==
    /\ last.op = "regions"
    /\ LET g == invert(last.regions)
       IN  /\ last' = [op |-> "invert", regions |-> last.regions, res |-> g.res,
                       out |-> g.out]
           /\ halted' = (g.res.kind = "panic")
    /\ UNCHANGED <<overflow_checks, host, mem, borrows, ptr, slice, flagval>>

NextTest ==
    \/ Inside
    \/ Invert

SpecTest == InitTest /\ [][NextTest]_vars

(***************************************************************************)
(* Claims about the test support crate.                                    *)
(***************************************************************************)
Yielded(res) == {res[v] : v \in 1 .. Len(res)}

\* C29: for an area A = (ptr, alen) and 1 <= len <= alen, inside(len) yields
\* exactly the areas (ptr+v, len) for v in 0..=alen-len, each overlapping A and
\* lying within [ptr, ptr+alen); for len > alen it yields nothing.
C29_InsideEnumerates ==
    last.op = "inside" =>
        LET A == last.self
        IN  /\ (1 <= last.len /\ last.len <= A.len) =>
                    /\ Yielded(last.res) =
                            {MemArea(A.ptr + v, last.len) : v \in 0 .. (A.len - last.len)}
                    /\ \A i \in Yielded(last.res) :
                            /\ overlapping(A, i)
                            /\ i.ptr >= A.ptr
                            /\ i.ptr + i.len <= A.ptr + A.len
            /\ last.len > A.len => last.res = <<>>

\* The bytes of an area.
Bytes(a) == a.ptr .. (a.ptr + a.len - 1)

\* The outcome claimed of invert: non-empty gaps, pairwise disjoint, disjoint from
\* the input, maximal, and covering with the input every byte exactly once.
InvertsExactly ==
    /\ last.res.kind = "Ok"
    /\ \A g \in last.out : g.len >= 1 /\ g.ptr + g.len <= HostLen
    /\ non_overlapping_set(last.out)
    /\ \A g \in last.out : \A r \in last.regions : ~overlapping(g, r)
    /\ \A g \in last.out : \A h \in last.out : g.ptr + g.len # h.ptr
    /\ \A x \in 0 .. HostLen - 1 :
            Cardinality({a \in last.regions \cup last.out : x \in Bytes(a)}) = 1

\* C30 as stated: for every set of pairwise non-overlapping areas inside the memory,
\* invert returns the maximal non-empty gaps.
C30_InvertAnyAreas ==
    (/\ last.op = "invert"
     /\ \A a \in last.regions : \A b \in last.regions \ {a} : Bytes(a) \cap Bytes(b) = {})
        => InvertsExactly

\* C30 amended: the same for sets of non-empty areas.
C30_InvertNonEmptyAreas ==
    (/\ last.op = "invert"
     /\ \A a \in last.regions : a.len >= 1
     /\ \A a \in last.regions : \A b \in last.regions \ {a} : Bytes(a) \cap Bytes(b) = {})
        => InvertsExactly

\* Two separate non-empty areas away from both ends of the memory: three gaps.
C30_Witness ==
    /\ last.op = "invert"
    /\ Cardinality(last.regions) = 2
    /\ \A a \in last.regions : a.len >= 1
    /\ non_overlapping_set(last.regions)
    /\ Cardinality(last.out) = 3
    /\ InvertsExactly
====
